---------------------------- MODULE Spec2Model ----------------------------
(***************************************************************************)
(* Lyra Registry: the trust-scoring engine (src/lib/calculateScore.ts),    *)
(* the tool CRUD handlers (api/tools, api/tools/[id]) with their awaited   *)
(* database statements as separate steps, the trending ranker              *)
(* (api/trending), the search route (api/search) and the discovery queue   *)
(* (api/discovery).                                                        *)
(***************************************************************************)
EXTENDS Integers, Sequences, FiniteSets, Bags, TLC

VARIABLES
    data,       \* scoring engine: the argument handed to calculateToolScore
    result,     \* scoring engine: the ScoreResult last returned (None before)
    prev,       \* scoring engine: the ScoreResult returned for the argument
                \* before the last single-flag change (None when there is none)
    tools,          \* table tools: id -> row, for the rows that exist
    toolUsageLogs,  \* table tool_usage_logs: a bag of [toolId, action, createdAt]
    categories,     \* table categories: slug -> [name, toolCount]
    nextId,         \* tool ids handed out so far (uuid defaultRandom: never reused)
    now,            \* the clock read by new Date() and defaultNow()
    bigintAsText,   \* whether the database driver hands count(*), a bigint,
                    \* to JavaScript as a decimal string (fixed per build)
    req,            \* request slot -> the handler's position and locals
    response,       \* the response returned last (None once a later request
                    \* has arrived)
    discoveryQueue  \* table discovery_queue: a bag of [name, sourceUrl]

scoreVars == <<data, result, prev>>

storeVars == <<tools, toolUsageLogs, categories, nextId, now, bigintAsText,
               req, response, discoveryQueue>>

vars == <<data, result, prev, tools, toolUsageLogs, categories, nextId, now,
          bigintAsText, req, response, discoveryQueue>>

\* The absent value of a variable that otherwise holds a record.
None == [none |-> TRUE]

(***************************************************************************)
(* Scoring engine                                                          *)
(***************************************************************************)

\* The nine optional properties of the argument of calculateToolScore.  A
\* property that is absent (or undefined) is a key outside DOMAIN data.
DataKeys ==
    {"isValidated", "hasTools", "hasDeployment", "hasDeployMoreThanManual",
     "hasReadme", "hasLicense", "hasPrompts", "hasResources", "isClaimed"}

\* Mutant: the weight of `claimed` is left out of the table.
DEFAULT_WEIGHTS_noClaimed ==
    [validated |-> 20, tools |-> 15, deployment |-> 15,
     deployMoreThanManual |-> 12, readme |-> 10, license |-> 8,
     prompts |-> 8, resources |-> 8]

\* Mutant: tools weighs 5, so the four required items weigh 50 of 90.
DEFAULT_WEIGHTS_lightTools ==
    [validated |-> 20, tools |-> 5, deployment |-> 15,
     deployMoreThanManual |-> 12, readme |-> 10, license |-> 8,
     prompts |-> 8, resources |-> 8, claimed |-> 4]

DEFAULT_WEIGHTS ==
    [validated |-> 20, tools |-> 15, deployment |-> 15,
     deployMoreThanManual |-> 12, readme |-> 10, license |-> 8,
     prompts |-> 8, resources |-> 8, claimed |-> 4]

\* Mutant: an absent property counts as true.
Boolean_absentTrue(obj, key) == key \notin DOMAIN obj \/ obj[key]

\* JavaScript Boolean(obj.key): an absent property reads undefined, which is
\* falsy.
Boolean(obj, key) == key \in DOMAIN obj /\ obj[key]

\* Mutant: the claimed flag is read negated.
calculateScoreFlags_negClaimed(d) ==
    [hasValidated            |-> Boolean(d, "isValidated"),
     hasTools                |-> Boolean(d, "hasTools"),
     hasDeployment           |-> Boolean(d, "hasDeployment"),
     hasDeployMoreThanManual |-> Boolean(d, "hasDeployMoreThanManual"),
     hasReadme               |-> Boolean(d, "hasReadme"),
     hasLicense              |-> Boolean(d, "hasLicense"),
     hasPrompts              |-> Boolean(d, "hasPrompts"),
     hasResources            |-> Boolean(d, "hasResources"),
     hasClaimed              |-> ~Boolean(d, "isClaimed")]

calculateScoreFlags(d) ==
    [hasValidated            |-> Boolean(d, "isValidated"),
     hasTools                |-> Boolean(d, "hasTools"),
     hasDeployment           |-> Boolean(d, "hasDeployment"),
     hasDeployMoreThanManual |-> Boolean(d, "hasDeployMoreThanManual"),
     hasReadme               |-> Boolean(d, "hasReadme"),
     hasLicense              |-> Boolean(d, "hasLicense"),
     hasPrompts              |-> Boolean(d, "hasPrompts"),
     hasResources            |-> Boolean(d, "hasResources"),
     hasClaimed              |-> Boolean(d, "isClaimed")]

\* Mutant: the readme item is not marked required.
createScoreItems_readmeOptional(flags) ==
    [validated            |-> [check |-> flags.hasValidated, required |-> TRUE],
     tools                |-> [check |-> flags.hasTools, required |-> TRUE],
     deployment           |-> [check |-> flags.hasDeployment, required |-> TRUE],
     readme               |-> [check |-> flags.hasReadme],
     deployMoreThanManual |-> [check |-> flags.hasDeployMoreThanManual],
     license              |-> [check |-> flags.hasLicense],
     prompts              |-> [check |-> flags.hasPrompts],
     resources            |-> [check |-> flags.hasResources],
     claimed              |-> [check |-> flags.hasClaimed]]

\* The optional items carry no `required` property at all.
createScoreItems(flags) ==
    [validated            |-> [check |-> flags.hasValidated, required |-> TRUE],
     tools                |-> [check |-> flags.hasTools, required |-> TRUE],
     deployment           |-> [check |-> flags.hasDeployment, required |-> TRUE],
     readme               |-> [check |-> flags.hasReadme, required |-> TRUE],
     deployMoreThanManual |-> [check |-> flags.hasDeployMoreThanManual],
     license              |-> [check |-> flags.hasLicense],
     prompts              |-> [check |-> flags.hasPrompts],
     resources            |-> [check |-> flags.hasResources],
     claimed              |-> [check |-> flags.hasClaimed]]

\* weights[key] || 5: a missing or zero weight counts 5.
WeightOf(weights, key) ==
    IF key \in DOMAIN weights /\ weights[key] # 0 THEN weights[key] ELSE 5

RECURSIVE SumWeights(_, _)
\* The accumulation of the forEach loop over the keys in S.
SumWeights(S, weights) ==
    IF S = {} THEN 0
    ELSE LET k == CHOOSE x \in S : TRUE
         IN  WeightOf(weights, k) + SumWeights(S \ {k}, weights)

\* Mutant: the quotient is truncated instead of rounded.
MathRound_floor(num, den) == num \div den

\* Math.round of the non-negative quotient num / den: floor(num/den + 1/2).
MathRound(num, den) == (2 * num + den) \div (2 * den)

\* Mutant: the B boundary is exclusive (percentage > 60).
GradeOf_exclusiveB(pNum, pDen, rNum, rDen) ==
    IF rNum < 100 * rDen THEN "f"
    ELSE IF pNum >= 80 * pDen THEN "a"
    ELSE IF pNum > 60 * pDen THEN "b"
    ELSE "f"

\* The grade decision of calculateScore on the unrounded quotients
\* percentage = pNum / pDen and requiredPercentage = rNum / rDen.
GradeOf(pNum, pDen, rNum, rDen) ==
    IF rNum < 100 * rDen THEN "f"
    ELSE IF pNum >= 80 * pDen THEN "a"
    ELSE IF pNum >= 60 * pDen THEN "b"
    ELSE "f"

\* calculateScore(items, weights).  The two percentages are the quotients
\* 100 * totalScore / maxScore and 100 * requiredScore / maxRequiredScore
\* (0 when the divisor is 0); the grade is decided on the unrounded
\* quotients, the returned percentages are rounded.
calculateScoreWith(items, weights) ==
    LET keys     == DOMAIN items
        isReq(k) == Boolean(items[k], "required")
        totalScore       == SumWeights({k \in keys : items[k].check}, weights)
        maxScore         == SumWeights(keys, weights)
        requiredScore    == SumWeights({k \in keys : isReq(k) /\ items[k].check}, weights)
        maxRequiredScore == SumWeights({k \in keys : isReq(k)}, weights)
        pNum == IF maxScore > 0 THEN 100 * totalScore ELSE 0
        pDen == IF maxScore > 0 THEN maxScore ELSE 1
        rNum == IF maxRequiredScore > 0 THEN 100 * requiredScore ELSE 0
        rDen == IF maxRequiredScore > 0 THEN maxRequiredScore ELSE 1
    IN  [grade              |-> GradeOf(pNum, pDen, rNum, rDen),
         maxRequiredScore   |-> maxRequiredScore,
         maxScore           |-> maxScore,
         percentage         |-> MathRound(pNum, pDen),
         requiredPercentage |-> MathRound(rNum, rDen),
         requiredScore      |-> requiredScore,
         totalScore         |-> totalScore]

calculateScore(items) == calculateScoreWith(items, DEFAULT_WEIGHTS)

calculateToolScore(tool) ==
    calculateScore(createScoreItems(calculateScoreFlags(tool)))

(***************************************************************************)
(* The store and the request handlers.  Every awaited database statement   *)
(* is one step: the statement together with the handler's code up to the   *)
(* next await.                                                             *)
(***************************************************************************)

MaxTools == 2       \* tools ever created
MaxRequests == 2    \* request slots (requests in flight at once)
MaxTime == 2        \* last clock value
MaxUsage == 2       \* most usage events of one tool

ToolIds == 1..MaxTools
Slots == 1..MaxRequests

Names == {"alpha", "beta"}
Slugs == {"defi", "nft"}

EmptyObject == [k \in {} |-> TRUE]

\* { ...a, ...b }
Spread(a, b) ==
    [k \in DOMAIN a \cup DOMAIN b |-> IF k \in DOMAIN b THEN b[k] ELSE a[k]]

\* obj.key ?? fallback
Nullish(obj, key, fallback) == IF key \in DOMAIN obj THEN obj[key] ELSE fallback

\* The flag parts of the request bodies: none supplied, hasTools cleared,
\* one optional flag set, the other three required flags set, and all nine.
FlagBodies ==
    { EmptyObject,
      [hasTools |-> FALSE],
      [hasLicense |-> TRUE],
      [isValidated |-> TRUE, hasDeployment |-> TRUE, hasReadme |-> TRUE],
      [k \in DataKeys |-> TRUE] }

\* Bodies of POST /api/tools that pass createToolSchema (of the fields the
\* handler only copies into the row, none is written out).
CreateBodies ==
    {Spread([name |-> n, category |-> c], f) :
        n \in Names, c \in Slugs, f \in FlagBodies}

\* Bodies of PATCH /api/tools/[id] that pass updateToolSchema.
PatchBodies ==
    FlagBodies \cup {[category |-> c] : c \in Slugs}
               \cup {[name |-> n] : n \in Names}

\* Bodies of POST /api/categories.
CategoryBodies == {[name |-> "DeFi", slug |-> "defi"], [name |-> "NFT", slug |-> "nft"]}

\* Mutant: hasTools defaults to false like the other flags.
SchemaDefaults_toolsFalse == [k \in DataKeys |-> FALSE]

\* The defaults createToolSchema applies to the audit flags.
SchemaDefaults ==
    [isValidated |-> FALSE, isClaimed |-> FALSE, hasTools |-> TRUE,
     hasReadme |-> FALSE, hasLicense |-> FALSE, hasDeployment |-> FALSE,
     hasDeployMoreThanManual |-> FALSE, hasPrompts |-> FALSE,
     hasResources |-> FALSE]

\* createToolSchema.safeParse(body).data
createToolSchema(body) == Spread(SchemaDefaults, body)

\* The keys of createToolSchema that the request bodies here use.
SchemaKeys == {"name", "category"} \cup DataKeys

\* Mutant: updateToolSchema passes the keys it does not know through.
updateToolSchema_passthrough(body) == body

\* updateToolSchema = createToolSchema.partial(): every field optional, no
\* default applied, an absent key stays absent, and a key the schema does
\* not have is stripped.
updateToolSchema(body) == [k \in DOMAIN body \cap SchemaKeys |-> body[k]]

Idle == [pc |-> "idle"]

InitStore ==
    /\ tools = EmptyObject
    /\ toolUsageLogs = EmptyBag
    /\ categories = EmptyObject
    /\ nextId = 0
    /\ discoveryQueue = EmptyBag
    /\ now = 0
    /\ bigintAsText = TRUE
    /\ req = [r \in Slots |-> Idle]
    /\ response = None

Quiet == \A r \in Slots : req[r] = Idle

\* Slot r takes the next request: the slots are interchangeable, and an
\* arriving request is put in the first one that is free.
FreeSlot(r) == req[r] = Idle /\ \A q \in Slots : q < r => req[q] # Idle

\* The handler in slot r returns.
Respond(r, resp) ==
    /\ req' = [req EXCEPT ![r] = Idle]
    /\ response' = resp

\* Time passes.
Tick ==
    /\ now < MaxTime
    /\ now' = now + 1
    /\ UNCHANGED <<tools, toolUsageLogs, categories, nextId, bigintAsText, req, response>>
    /\ UNCHANGED <<scoreVars, discoveryQueue>>

(***************************************************************************)
(* POST /api/tools                                                         *)
(***************************************************************************)

\* a || b on booleans
Or(a, b) == IF a THEN a ELSE b

\* The row inserted by POST /api/tools: ...toolData, the score fields, the
\* scoreData object, and the column defaults the database fills in.
NewToolRow(toolData, scoreResult, ts) ==
    Spread(toolData,
        [totalScore    |-> scoreResult.totalScore,
         maxScore      |-> scoreResult.maxScore,
         percentage    |-> scoreResult.percentage,
         grade         |-> scoreResult.grade,
         scoreData     |->
            [hasValidated            |-> Or(toolData.isValidated, FALSE),
             hasTools                |-> Or(toolData.hasTools, TRUE),
             hasDeployment           |-> Or(toolData.hasDeployment, FALSE),
             hasDeployMoreThanManual |-> Or(toolData.hasDeployMoreThanManual, FALSE),
             hasReadme               |-> Or(toolData.hasReadme, FALSE),
             hasLicense              |-> Or(toolData.hasLicense, FALSE),
             hasPrompts              |-> Or(toolData.hasPrompts, FALSE),
             hasResources            |-> Or(toolData.hasResources, FALSE),
             hasClaimed              |-> Or(toolData.isClaimed, FALSE)],
         downloadCount |-> 0,
         usageCount    |-> 0,
         createdAt     |-> ts,
         updatedAt     |-> ts])

\* The statement: select id from tools where name = toolData.name.
\* A hit answers 409; otherwise the score is calculated from toolData.
CreateCheck(r, body) ==
    /\ FreeSlot(r)
    /\ LET toolData == createToolSchema(body)
       IN  IF \E id \in DOMAIN tools : tools[id].name = toolData.name
           THEN Respond(r, [kind |-> "createTool", status |-> 409])
           ELSE /\ req' = [req EXCEPT ![r] =
                            [pc          |-> "create_insert",
                             toolData    |-> toolData,
                             scoreResult |-> calculateToolScore(
                                [k \in DataKeys |-> toolData[k]])]]
                /\ response' = None
    /\ UNCHANGED <<tools, toolUsageLogs, categories, nextId, now, bigintAsText>>
    /\ UNCHANGED <<scoreVars, discoveryQueue>>

\* Mutant: the name column has no unique constraint.
CreateInsert_noConstraint(r) ==
    /\ req[r].pc = "create_insert"
    /\ nextId < MaxTools
    /\ nextId' = nextId + 1
    /\ tools' = Spread(tools,
          [i \in {nextId'} |->
              NewToolRow(req[r].toolData, req[r].scoreResult, now)])
    /\ req' = [req EXCEPT ![r] =
                [pc |-> "create_count", id |-> nextId',
                 category |-> req[r].toolData.category]]
    /\ UNCHANGED <<toolUsageLogs, categories, now, bigintAsText, response>>
    /\ UNCHANGED <<scoreVars, discoveryQueue>>

\* The statement: insert into tools ... returning.  The unique constraint on
\* name makes it throw when a row with the name exists by now (500).
CreateInsert(r) ==
    /\ req[r].pc = "create_insert"
    /\ nextId < MaxTools
    /\ LET toolData == req[r].toolData
       IN  IF \E id \in DOMAIN tools : tools[id].name = toolData.name
           THEN /\ Respond(r, [kind |-> "createTool", status |-> 500])
                /\ UNCHANGED <<tools, nextId>>
           ELSE /\ nextId' = nextId + 1
                /\ tools' = Spread(tools,
                      [i \in {nextId'} |->
                          NewToolRow(toolData, req[r].scoreResult, now)])
                /\ req' = [req EXCEPT ![r] =
                            [pc |-> "create_count", id |-> nextId',
                             category |-> toolData.category]]
                /\ UNCHANGED response
    /\ UNCHANGED <<toolUsageLogs, categories, now, bigintAsText>>
    /\ UNCHANGED <<scoreVars, discoveryQueue>>

\* update categories set tool_count = tool_count + 1 where slug = category
CategoryIncrement(category) ==
    [c \in DOMAIN categories |->
        IF c = category
        THEN [categories[c] EXCEPT !.toolCount = @ + 1]
        ELSE categories[c]]

\* The statement: the category counter update; then 201.
CreateCount(r) ==
    /\ req[r].pc = "create_count"
    /\ categories' = CategoryIncrement(req[r].category)
    /\ Respond(r, [kind |-> "createTool", status |-> 201, id |-> req[r].id])
    /\ UNCHANGED <<tools, toolUsageLogs, nextId, now, bigintAsText>>
    /\ UNCHANGED <<scoreVars, discoveryQueue>>

(***************************************************************************)
(* PATCH /api/tools/[id]                                                   *)
(***************************************************************************)

scoringFields == DataKeys

\* Mutant: the flags are merged with || instead of ??, so a false in
\* updateData falls back to the stored flag.
MergedFlags_orMerge(updateData, existing) ==
    [k \in DataKeys |-> IF Boolean(updateData, k) THEN TRUE ELSE existing[k]]

\* The flags of updateData over those of the row read.
MergedFlags(updateData, existing) ==
    [k \in DataKeys |-> Nullish(updateData, k, existing[k])]

\* Mutant: the score is recalculated on every PATCH, from the flags of
\* updateData alone.
ScoreUpdate_fromBodyAlone(updateData, existing) ==
    LET scoreResult == calculateToolScore(
                          [k \in DOMAIN updateData \cap DataKeys |-> updateData[k]])
    IN  [totalScore |-> scoreResult.totalScore,
         maxScore   |-> scoreResult.maxScore,
         percentage |-> scoreResult.percentage,
         grade      |-> scoreResult.grade]

\* scoreUpdate: empty unless a scoring field is in updateData.
ScoreUpdate(updateData, existing) ==
    IF \E field \in scoringFields : field \in DOMAIN updateData
    THEN LET merged      == MergedFlags(updateData, existing)
             scoreResult == calculateToolScore(merged)
         IN  [totalScore |-> scoreResult.totalScore,
              maxScore   |-> scoreResult.maxScore,
              percentage |-> scoreResult.percentage,
              grade      |-> scoreResult.grade,
              scoreData  |->
                 [hasValidated            |-> merged.isValidated,
                  hasTools                |-> merged.hasTools,
                  hasDeployment           |-> merged.hasDeployment,
                  hasDeployMoreThanManual |-> merged.hasDeployMoreThanManual,
                  hasReadme               |-> merged.hasReadme,
                  hasLicense              |-> merged.hasLicense,
                  hasPrompts              |-> merged.hasPrompts,
                  hasResources            |-> merged.hasResources,
                  hasClaimed              |-> merged.isClaimed]]
    ELSE EmptyObject

\* The statement: select from tools where id.  No row answers 404; otherwise
\* the handler builds the set() object: ...updateData, ...scoreUpdate,
\* updatedAt: new Date().
PatchRead(r, id, body) ==
    /\ FreeSlot(r)
    /\ LET updateData == updateToolSchema(body)
       IN  IF id \notin DOMAIN tools
           THEN Respond(r, [kind |-> "patchTool", status |-> 404])
           ELSE /\ req' = [req EXCEPT ![r] =
                            [pc  |-> "patch_update",
                             id  |-> id,
                             set |-> Spread(Spread(updateData,
                                         ScoreUpdate(updateData, tools[id])),
                                         [updatedAt |-> now])]]
                /\ response' = None
    /\ UNCHANGED <<tools, toolUsageLogs, categories, nextId, now, bigintAsText>>
    /\ UNCHANGED <<scoreVars, discoveryQueue>>

\* Mutant: a PATCH that moves the tool to another category moves a count
\* from the old category to the new one.
PatchUpdate_recount(r) ==
    /\ req[r].pc = "patch_update"
    /\ req[r].id \in DOMAIN tools
    /\ LET id  == req[r].id
           set == req[r].set
           old == tools[id].category
           new == IF "category" \in DOMAIN set THEN set.category ELSE old
       IN  /\ tools' = [tools EXCEPT ![id] = Spread(@, set)]
           /\ categories' =
                 [c \in DOMAIN categories |->
                    IF c = new /\ c # old
                    THEN [categories[c] EXCEPT !.toolCount = @ + 1]
                    ELSE IF c = old /\ c # new
                    THEN [categories[c] EXCEPT !.toolCount = IF @ > 0 THEN @ - 1 ELSE 0]
                    ELSE categories[c]]
           /\ Respond(r, [kind |-> "patchTool", status |-> 200, id |-> id])
    /\ UNCHANGED <<toolUsageLogs, nextId, now, bigintAsText>>
    /\ UNCHANGED <<scoreVars, discoveryQueue>>

\* The statement: update tools set ... where id returning.  A row deleted
\* meanwhile is not updated (200 without data); a name taken by another row
\* makes the statement throw (500).
PatchUpdate(r) ==
    /\ req[r].pc = "patch_update"
    /\ LET id  == req[r].id
           set == req[r].set
       IN  IF id \notin DOMAIN tools
           THEN /\ Respond(r, [kind |-> "patchTool", status |-> 200])
                /\ UNCHANGED tools
           ELSE IF /\ "name" \in DOMAIN set
                   /\ \E o \in DOMAIN tools \ {id} : tools[o].name = set.name
           THEN /\ Respond(r, [kind |-> "patchTool", status |-> 500])
                /\ UNCHANGED tools
           ELSE /\ tools' = [tools EXCEPT ![id] = Spread(@, set)]
                /\ Respond(r, [kind |-> "patchTool", status |-> 200, id |-> id])
    /\ UNCHANGED <<toolUsageLogs, categories, nextId, now, bigintAsText>>
    /\ UNCHANGED <<scoreVars, discoveryQueue>>

(***************************************************************************)
(* DELETE /api/tools/[id]                                                  *)
(***************************************************************************)

\* The statement: select id, category from tools where id.
DeleteRead(r, id) ==
    /\ FreeSlot(r)
    /\ IF id \notin DOMAIN tools
       THEN Respond(r, [kind |-> "deleteTool", status |-> 404])
       ELSE /\ req' = [req EXCEPT ![r] =
                        [pc |-> "delete_delete", id |-> id,
                         category |-> tools[id].category]]
            /\ response' = None
    /\ UNCHANGED <<tools, toolUsageLogs, categories, nextId, now, bigintAsText>>
    /\ UNCHANGED <<scoreVars, discoveryQueue>>

\* The bag of the log rows whose tool is not `id`.
LogsWithout(id) ==
    LET keep == {e \in BagToSet(toolUsageLogs) : e.toolId # id}
    IN  [e \in keep |-> toolUsageLogs[e]]

\* The statement: delete from tools where id; the usage logs of the tool go
\* with it (on delete cascade).
DeleteRow(r) ==
    /\ req[r].pc = "delete_delete"
    /\ tools' = [i \in DOMAIN tools \ {req[r].id} |-> tools[i]]
    /\ toolUsageLogs' = LogsWithout(req[r].id)
    /\ req' = [req EXCEPT ![r] =
                [pc |-> "delete_count", id |-> req[r].id,
                 category |-> req[r].category]]
    /\ UNCHANGED <<categories, nextId, now, bigintAsText, response>>
    /\ UNCHANGED <<scoreVars, discoveryQueue>>

\* Mutant: no floor.
Greatest_first(a, b) == a

\* Math.max(a, b)
Greatest(a, b) == IF a >= b THEN a ELSE b

\* update categories set tool_count = GREATEST(tool_count - 1, 0) where slug
CategoryDecrement(category) ==
    [c \in DOMAIN categories |->
        IF c = category
        THEN [categories[c] EXCEPT !.toolCount = Greatest(@ - 1, 0)]
        ELSE categories[c]]

\* The statement: the category counter update; then 200.
DeleteCount(r) ==
    /\ req[r].pc = "delete_count"
    /\ categories' = CategoryDecrement(req[r].category)
    /\ Respond(r, [kind |-> "deleteTool", status |-> 200, id |-> req[r].id])
    /\ UNCHANGED <<tools, toolUsageLogs, nextId, now, bigintAsText>>
    /\ UNCHANGED <<scoreVars, discoveryQueue>>

(***************************************************************************)
(* GET /api/tools/[id]                                                     *)
(***************************************************************************)

\* The statement: select from tools where id.  No row answers 404.
GetRead(r, id) ==
    /\ FreeSlot(r)
    /\ IF id \notin DOMAIN tools
       THEN Respond(r, [kind |-> "getTool", status |-> 404])
       ELSE /\ req' = [req EXCEPT ![r] = [pc |-> "get_log", id |-> id]]
            /\ response' = None
    /\ UNCHANGED <<tools, toolUsageLogs, categories, nextId, now, bigintAsText>>
    /\ UNCHANGED <<scoreVars, discoveryQueue>>

\* Mutant: the log table has no foreign key to tools.
ForeignKeyHolds_unchecked(id) == TRUE

\* tool_id references tools.id: the row referenced must exist.
ForeignKeyHolds(id) == id \in DOMAIN tools

\* The number of usage events logged for tool id.
LoggedFor(id) ==
    LET hits == {e \in BagToSet(toolUsageLogs) : e.toolId = id}
    IN  BagCardinality([e \in hits |-> toolUsageLogs[e]])

\* The statement: insert into tool_usage_logs (tool_id, action 'view');
\* created_at defaults to now.  It throws when the tool is gone (500);
\* otherwise the tool read is answered.
GetLog(r) ==
    /\ req[r].pc = "get_log"
    /\ LoggedFor(req[r].id) < MaxUsage
    /\ IF ForeignKeyHolds(req[r].id)
       THEN /\ toolUsageLogs' = toolUsageLogs (+) SetToBag(
                  {[toolId |-> req[r].id, action |-> "view", createdAt |-> now]})
            /\ Respond(r, [kind |-> "getTool", status |-> 200, id |-> req[r].id])
       ELSE /\ Respond(r, [kind |-> "getTool", status |-> 500])
            /\ UNCHANGED toolUsageLogs
    /\ UNCHANGED <<tools, categories, nextId, now, bigintAsText>>
    /\ UNCHANGED <<scoreVars, discoveryQueue>>

(***************************************************************************)
(* POST /api/categories                                                    *)
(***************************************************************************)

\* The statement: select id from categories where slug.
CategoryCheck(r, body) ==
    /\ FreeSlot(r)
    /\ IF body.slug \in DOMAIN categories
       THEN Respond(r, [kind |-> "createCategory", status |-> 409])
       ELSE /\ req' = [req EXCEPT ![r] =
                        [pc |-> "category_insert", categoryData |-> body]]
            /\ response' = None
    /\ UNCHANGED <<tools, toolUsageLogs, categories, nextId, now, bigintAsText>>
    /\ UNCHANGED <<scoreVars, discoveryQueue>>

\* The statement: insert into categories ... returning (tool_count defaults
\* to 0).  The unique constraints on slug and name make it throw (500).
CategoryInsert(r) ==
    /\ req[r].pc = "category_insert"
    /\ LET categoryData == req[r].categoryData
       IN  IF \/ categoryData.slug \in DOMAIN categories
              \/ \E c \in DOMAIN categories :
                    categories[c].name = categoryData.name
           THEN /\ Respond(r, [kind |-> "createCategory", status |-> 500])
                /\ UNCHANGED categories
           ELSE /\ categories' = Spread(categories,
                      [c \in {categoryData.slug} |->
                          [name |-> categoryData.name, toolCount |-> 0]])
                /\ Respond(r, [kind |-> "createCategory", status |-> 201])
    /\ UNCHANGED <<tools, toolUsageLogs, nextId, now, bigintAsText>>
    /\ UNCHANGED <<scoreVars, discoveryQueue>>

(***************************************************************************)
(* Tool requests one at a time, and interleaved                            *)
(***************************************************************************)

\* A tool handler in flight runs its next statement.
ToolStep(r) ==
    \/ CreateInsert(r)
    \/ CreateCount(r)
    \/ PatchUpdate(r)
    \/ DeleteRow(r)
    \/ DeleteCount(r)

InitApi ==
    /\ InitStore
    /\ data = EmptyObject
    /\ result = None
    /\ prev = None

\* Requests of the serial runs: tools of either name in one category, created
\* and patched with every flag body.
SerialCreateBodies ==
    {Spread([name |-> n, category |-> "defi"], f) : n \in Names, f \in FlagBodies}

SerialPatchBodies == FlagBodies \cup {[category |-> "nft"]}

\* A create, PATCH or delete request arrives while no other is in flight.
SerialStart(r) ==
    /\ Quiet
    /\ \/ \E body \in SerialCreateBodies : CreateCheck(r, body)
       \/ \E id \in ToolIds, body \in SerialPatchBodies : PatchRead(r, id, body)
       \/ \E id \in ToolIds : DeleteRead(r, id)

NextSerial ==
    \/ \E r \in Slots : SerialStart(r)
    \/ \E r \in Slots : ToolStep(r)

SpecSerial == InitApi /\ [][NextSerial]_vars

\* Requests of the interleaved runs: one tool name, PATCHes of single flags.
RaceCreateBodies == {[name |-> "alpha", category |-> "defi"]}

RacePatchBodies == {[hasLicense |-> TRUE], [hasPrompts |-> TRUE]}

\* A create, PATCH or delete request arrives, whatever else is in flight.
RaceStart(r) ==
    \/ \E body \in RaceCreateBodies : CreateCheck(r, body)
    \/ \E id \in ToolIds, body \in RacePatchBodies : PatchRead(r, id, body)
    \/ \E id \in ToolIds : DeleteRead(r, id)

NextConcurrent ==
    \/ \E r \in Slots : RaceStart(r)
    \/ \E r \in Slots : ToolStep(r)
    \/ Tick

SpecConcurrent == InitApi /\ [][NextConcurrent]_vars

(***************************************************************************)
(* Categories and their counters: category and tool requests one at a time *)
(***************************************************************************)

\* Two tools of different category.
CatalogCreateBodies ==
    {[name |-> "alpha", category |-> "defi"], [name |-> "beta", category |-> "nft"]}

\* A move to either category.
CatalogPatchBodies == {[category |-> c] : c \in Slugs}

\* A category or tool request arrives while no other is in flight.
CatalogStart(r) ==
    /\ Quiet
    /\ \/ \E body \in CategoryBodies : CategoryCheck(r, body)
       \/ \E body \in CatalogCreateBodies : CreateCheck(r, body)
       \/ \E id \in ToolIds, body \in CatalogPatchBodies : PatchRead(r, id, body)
       \/ \E id \in ToolIds : DeleteRead(r, id)

NextCatalog ==
    \/ \E r \in Slots : CatalogStart(r)
    \/ \E r \in Slots : CategoryInsert(r)
    \/ \E r \in Slots : ToolStep(r)

SpecCatalog == InitApi /\ [][NextCatalog]_vars

(***************************************************************************)
(* Views: create, view and delete requests of one tool name, interleaved   *)
(***************************************************************************)

ViewCreateBodies == {[name |-> "alpha", category |-> "defi"]}

\* A create, view or delete request arrives, whatever else is in flight.
ViewStart(r) ==
    \/ \E body \in ViewCreateBodies : CreateCheck(r, body)
    \/ \E id \in ToolIds : GetRead(r, id)
    \/ \E id \in ToolIds : DeleteRead(r, id)

\* A handler in flight runs its next statement.
ViewStep(r) ==
    \/ CreateInsert(r)
    \/ CreateCount(r)
    \/ GetLog(r)
    \/ DeleteRow(r)
    \/ DeleteCount(r)

NextViews ==
    \/ \E r \in Slots : ViewStart(r)
    \/ \E r \in Slots : ViewStep(r)

SpecViews == InitApi /\ [][NextViews]_vars

(***************************************************************************)
(* Names: creates of the same and of different names, renames and deletes, *)
(* interleaved, over a store that has both categories                      *)
(***************************************************************************)

NameCreateBodies ==
    {[name |-> "alpha", category |-> "defi"], [name |-> "beta", category |-> "nft"]}

NamePatchBodies == {[name |-> "beta"]}

\* The store after both categories have been created.
InitNames ==
    /\ data = EmptyObject
    /\ result = None
    /\ prev = None
    /\ tools = EmptyObject
    /\ toolUsageLogs = EmptyBag
    /\ categories = [c \in Slugs |->
                        [name |-> IF c = "defi" THEN "DeFi" ELSE "NFT",
                         toolCount |-> 0]]
    /\ nextId = 0
    /\ discoveryQueue = EmptyBag
    /\ now = 0
    /\ bigintAsText = TRUE
    /\ req = [r \in Slots |-> Idle]
    /\ response = None

\* A create, rename or delete request arrives, whatever else is in flight.
NameStart(r) ==
    \/ \E body \in NameCreateBodies : CreateCheck(r, body)
    \/ \E id \in ToolIds, body \in NamePatchBodies : PatchRead(r, id, body)
    \/ \E id \in ToolIds : DeleteRead(r, id)

NextNames ==
    \/ \E r \in Slots : NameStart(r)
    \/ \E r \in Slots : ToolStep(r)

SpecNames == InitNames /\ [][NextNames]_vars

(***************************************************************************)
(* GET /api/trending                                                       *)
(***************************************************************************)

MaxLimit == 2       \* largest limit requested

\* JavaScript values of the trending arithmetic: a number, or a string of
\* decimal digits without leading zero, which is kept as the number it
\* spells.
Num(n) == [t |-> "number", n |-> n]

Str(n) == [t |-> "string", n |-> n]

RECURSIVE DecimalDigits(_)
\* The length of String(n).
DecimalDigits(n) == IF n < 10 THEN 1 ELSE 1 + DecimalDigits(n \div 10)

RECURSIVE Pow10(_)
Pow10(k) == IF k = 0 THEN 1 ELSE 10 * Pow10(k - 1)

\* a + b: addition of two numbers, concatenation when either is a string.
JsPlus(a, b) ==
    IF a.t = "string" \/ b.t = "string"
    THEN Str(a.n * Pow10(DecimalDigits(b.n)) + b.n)
    ELSE Num(a.n + b.n)

\* a || b: the number 0 is falsy, a non-empty string is truthy.
JsOr(a, b) == IF a.t = "number" /\ a.n = 0 THEN b ELSE a

\* The numeric conversion applied by the comparator's subtraction.
ToNumber(a) == a.n

\* sql<number>`count(*)`: the annotation converts nothing; the value is
\* what the driver returns for a bigint.
DbCount(n) == IF bigintAsText THEN Str(n) ELSE Num(n)

Periods == {"day", "week", "month"}

\* Mutant: the day window is empty.
periodDays_shortDay == [day |-> 0, week |-> 7, month |-> 30]

\* Lookback in days; the clock counts days.
periodDays == [day |-> 1, week |-> 7, month |-> 30]

\* Query objects that pass trendingQuerySchema; category is optional.
TrendingQueries ==
    {[period |-> p, limit |-> l] : p \in Periods, l \in 1..MaxLimit}
    \cup {[period |-> p, limit |-> l, category |-> c] :
            p \in Periods, l \in 1..MaxLimit, c \in Slugs}

Min(a, b) == IF a <= b THEN a ELSE b

\* Mutant: the rows come back in any order.
SortedPrefixes_unordered(S, before, n) ==
    LET m == IF n <= Cardinality(S) THEN n ELSE Cardinality(S)
    IN  {q \in [1..m -> S] : \A i, j \in 1..m : i < j => q[i] # q[j]}

\* The results a query `order by ... limit n` over the rows S may return:
\* the first n rows of any order in which no row comes after one it must
\* precede (rows that tie come in any order).  `before` is the set of the
\* pairs <<a, b>> where the order by clause puts a ahead of b.
SortedPrefixes(S, before, n) ==
    LET m == Min(n, Cardinality(S))
    IN  {q \in [1..m -> S] :
            /\ \A i, j \in 1..m :
                  i < j => q[i] # q[j] /\ <<q[j], q[i]>> \notin before
            /\ \A x \in S \ {q[i] : i \in 1..m} :
                    \A i \in 1..m : <<x, q[i]>> \notin before}

\* count(*) of the usage logs of tool id with created_at >= threshold.
CountSince(id, threshold) ==
    LET hits == {e \in BagToSet(toolUsageLogs) :
                    e.toolId = id /\ e.createdAt >= threshold}
    IN  BagCardinality([e \in hits |-> toolUsageLogs[e]])

\* The statement: usage logs since the threshold grouped by tool, ordered by
\* count descending, limit * 2.  No group sends the handler to the fallback.
TrendingUsage(r, query) ==
    /\ FreeSlot(r)
    /\ LET threshold == now - periodDays[query.period]
           groups    == {e.toolId : e \in {x \in BagToSet(toolUsageLogs) :
                                            x.createdAt >= threshold}}
           before    == {p \in groups \X groups :
                            CountSince(p[1], threshold) > CountSince(p[2], threshold)}
       IN  \E order \in SortedPrefixes(groups, before, query.limit * 2) :
              req' = [req EXCEPT ![r] =
                  IF DOMAIN order = {}
                  THEN [pc |-> "trending_fallback", query |-> query]
                  ELSE [pc |-> "trending_fetch", query |-> query,
                        trendingData |->
                          [i \in DOMAIN order |->
                              [toolId     |-> order[i],
                               usageCount |->
                                  DbCount(CountSince(order[i], threshold))]]]]
    /\ response' = None
    /\ UNCHANGED <<tools, toolUsageLogs, categories, nextId, now, bigintAsText>>
    /\ UNCHANGED <<scoreVars, discoveryQueue>>

\* Mutant: the category asked for is ignored.
CategoryMatches_any(query, row) == TRUE

\* Mutant: the filter keeps the tools of the other categories.
CategoryMatches_other(query, row) ==
    "category" \in DOMAIN query => row.category # query.category

\* t.category === category, when a category is asked for.
CategoryMatches(query, row) ==
    "category" \in DOMAIN query => row.category = query.category

\* The statement: tools (of the category) ordered by totalScore desc,
\* downloadCount desc, limit; answered with recentUsage 0.
TrendingFallback(r) ==
    /\ req[r].pc = "trending_fallback"
    /\ LET query == req[r].query
           rows  == {id \in DOMAIN tools : CategoryMatches(query, tools[id])}
           before == {p \in rows \X rows :
               \/ tools[p[1]].totalScore > tools[p[2]].totalScore
               \/ /\ tools[p[1]].totalScore = tools[p[2]].totalScore
                  /\ tools[p[1]].downloadCount > tools[p[2]].downloadCount}
       IN  \E order \in SortedPrefixes(rows, before, query.limit) :
              Respond(r,
                [kind |-> "trending", status |-> 200, query |-> query,
                 fallback |-> TRUE,
                 data |-> [i \in DOMAIN order |->
                    Spread(tools[order[i]],
                        [id            |-> order[i],
                         trendingScore |->
                            JsOr(Num(tools[order[i]].totalScore), Num(0)),
                         recentUsage   |-> Num(0)])]])
    /\ UNCHANGED <<tools, toolUsageLogs, categories, nextId, now, bigintAsText>>
    /\ UNCHANGED <<scoreVars, discoveryQueue>>

\* usageMap.get(id) || 0
UsageOf(trendingData, id) ==
    IF \E i \in DOMAIN trendingData : trendingData[i].toolId = id
    THEN JsOr(trendingData[CHOOSE i \in DOMAIN trendingData :
                              trendingData[i].toolId = id].usageCount, Num(0))
    ELSE Num(0)

\* (usageMap.get(tool.id) || 0) + (tool.totalScore || 0)
TrendingScore(trendingData, id, row) ==
    JsPlus(UsageOf(trendingData, id), JsOr(Num(row.totalScore), Num(0)))

\* The statement: the tools whose id is in trendingData, in the order the
\* database returns them; then filter by category, sort by trendingScore
\* descending (the sort is stable) and slice(0, limit).
TrendingFetch(r) ==
    /\ req[r].pc = "trending_fetch"
    /\ LET query        == req[r].query
           trendingData == req[r].trendingData
           toolIds      == {trendingData[i].toolId : i \in DOMAIN trendingData}
           fetched      == toolIds \cap DOMAIN tools
           filtered     == {id \in fetched : CategoryMatches(query, tools[id])}
           score(id)    == TrendingScore(trendingData, id, tools[id])
           before       == {p \in filtered \X filtered :
                               ToNumber(score(p[1])) > ToNumber(score(p[2]))}
       IN  \E order \in SortedPrefixes(filtered, before, query.limit) :
              Respond(r,
                [kind |-> "trending", status |-> 200, query |-> query,
                 fallback |-> FALSE,
                 data |-> [i \in DOMAIN order |->
                    Spread(tools[order[i]],
                        [id            |-> order[i],
                         trendingScore |-> score(order[i]),
                         recentUsage   |-> UsageOf(trendingData, order[i])])]])
    /\ UNCHANGED <<tools, toolUsageLogs, categories, nextId, now, bigintAsText>>
    /\ UNCHANGED <<scoreVars, discoveryQueue>>

\* Mutant: the catch block answers a successful empty ranking.
InternalError_emptyOk(kind) ==
    [kind |-> kind, status |-> 200, fallback |-> FALSE, data |-> <<>>]

\* The catch block of a handler: 500, success false, no data.
InternalError(kind) == [kind |-> kind, status |-> 500]

\* The first statement of the handler (the usage query) throws.
TrendingUsageFail(r) ==
    /\ FreeSlot(r)
    /\ Respond(r, InternalError("trending"))
    /\ UNCHANGED <<tools, toolUsageLogs, categories, nextId, now, bigintAsText>>
    /\ UNCHANGED <<scoreVars, discoveryQueue>>

\* The fallback query or the tool fetch throws.
TrendingStepFail(r) ==
    /\ req[r].pc \in {"trending_fallback", "trending_fetch"}
    /\ Respond(r, InternalError("trending"))
    /\ UNCHANGED <<tools, toolUsageLogs, categories, nextId, now, bigintAsText>>
    /\ UNCHANGED <<scoreVars, discoveryQueue>>

(***************************************************************************)
(* The trending ranker over a populated store: three tools, two in one     *)
(* category and one in the other, each created with the default flags or   *)
(* with all nine, and each with up to MaxUsage usage events of one age.    *)
(***************************************************************************)

TrendIds == {1, 2, 3}

TrendNames == [i \in TrendIds |-> <<"alpha", "beta", "gamma">>[i]]

TrendCategory == [i \in TrendIds |-> <<"defi", "defi", "nft">>[i]]

TrendFlagBodies == {EmptyObject, [k \in DataKeys |-> TRUE]}

\* Ages of the usage events in days: exactly at the threshold of the day
\* window, and before it (inside the week and month windows).
EventAges == {1, 2}

\* The row POST /api/tools stores for the body.
CreatedRow(body, ts) ==
    LET toolData == createToolSchema(body)
    IN  NewToolRow(toolData,
                   calculateToolScore([k \in DataKeys |-> toolData[k]]), ts)

\* The populated catalog.
InitCatalog ==
    /\ data = EmptyObject
    /\ result = None
    /\ prev = None
    /\ \E f \in [TrendIds -> TrendFlagBodies] :
          tools = [i \in TrendIds |->
                      CreatedRow(Spread([name |-> TrendNames[i],
                                         category |-> TrendCategory[i]],
                                        f[i]), 0)]
    /\ now = 2
    /\ \E u \in [TrendIds -> 0..MaxUsage], age \in [TrendIds -> EventAges] :
          toolUsageLogs =
              [e \in {[toolId |-> i, action |-> "view",
                       createdAt |-> now - age[i]] :
                            i \in {x \in TrendIds : u[x] > 0}} |-> u[e.toolId]]
    /\ categories = EmptyObject
    /\ nextId = 3
    /\ discoveryQueue = EmptyBag
    /\ bigintAsText \in BOOLEAN
    /\ req = [r \in Slots |-> Idle]
    /\ response = None

\* One trending request runs over the store, which does not change.
NextTrending ==
    \/ \E r \in Slots, query \in TrendingQueries :
          Quiet /\ response = None /\ TrendingUsage(r, query)
    \/ \E r \in Slots : TrendingFallback(r)
    \/ \E r \in Slots : TrendingFetch(r)
    \/ \E r \in Slots : Quiet /\ response = None /\ TrendingUsageFail(r)
    \/ \E r \in Slots : TrendingStepFail(r)

\* The ranker starts over the populated catalog or over the empty one.
InitTrending ==
    \/ InitCatalog
    \/ /\ data = EmptyObject
       /\ result = None
       /\ prev = None
       /\ tools = EmptyObject
       /\ toolUsageLogs = EmptyBag
       /\ categories = EmptyObject
       /\ nextId = 0
       /\ discoveryQueue = EmptyBag
       /\ now = 2
       /\ bigintAsText \in BOOLEAN
       /\ req = [r \in Slots |-> Idle]
       /\ response = None

SpecTrending == InitTrending /\ [][NextTrending]_vars

(***************************************************************************)
(* The scoring engine on its own: every argument with each of the nine     *)
(* properties true, false or absent.                                       *)
(***************************************************************************)

ScoreInputs == UNION {[S -> BOOLEAN] : S \in SUBSET DataKeys}

InitScore ==
    /\ data \in ScoreInputs
    /\ result = None
    /\ prev = None
    /\ InitStore

\* A call calculateToolScore(data).
Score ==
    /\ result = None
    /\ result' = calculateToolScore(data)
    /\ UNCHANGED <<data, prev>>
    /\ UNCHANGED storeVars

\* The caller turns one flag that reads false on, and scores again.
FlipOn(k) ==
    /\ result # None
    /\ ~Boolean(data, k)
    /\ data' = [x \in DOMAIN data \cup {k} |-> IF x = k THEN TRUE ELSE data[x]]
    /\ prev' = result
    /\ result' = calculateToolScore(data')
    /\ UNCHANGED storeVars

NextScore ==
    \/ Score
    \/ \E k \in DataKeys : FlipOn(k)

SpecScore == InitScore /\ [][NextScore]_vars

(***************************************************************************)
(* Properties of the scoring engine (checked under SpecScore)              *)
(***************************************************************************)

RequiredFlags == {"isValidated", "hasTools", "hasDeployment", "hasReadme"}

\* The weight table of the specification, by flag.
FlagWeight ==
    [isValidated |-> 20, hasTools |-> 15, hasDeployment |-> 15,
     hasDeployMoreThanManual |-> 12, hasReadme |-> 10, hasLicense |-> 8,
     hasPrompts |-> 8, hasResources |-> 8, isClaimed |-> 4]

RECURSIVE SumFlagWeight(_)
SumFlagWeight(S) ==
    IF S = {} THEN 0
    ELSE LET k == CHOOSE x \in S : TRUE
         IN  FlagWeight[k] + SumFlagWeight(S \ {k})

\* The flags of `data` that read true.
TrueFlags == {k \in DOMAIN data : data[k]}

AllRequired == RequiredFlags \subseteq TrueFlags

\* C3: for every combination of the nine flags the grade is f whenever one
\* of validated, hasTools, hasDeployment, hasReadme is false, and it is a or
\* b only when all four are true.
C3_RequiredGate ==
    result # None =>
        /\ (~AllRequired => result.grade = "f")
        /\ (result.grade \in {"a", "b"} => AllRequired)

\* C3 witness: one required flag off with the other eight on (80 points)
\* has been scored.
C3_Witness ==
    /\ result # None
    /\ TrueFlags = DataKeys \ {"isValidated"}
    /\ result.totalScore = 80

\* C4: with all four required flags true the grade is a exactly when
\* percentage >= 80 and b exactly when 60 <= percentage < 80; the four
\* required flags alone give 60, 60, requiredPercentage 100 and b; all nine
\* give 100, 100 and a.
C4_GradeBands ==
    (result # None /\ AllRequired) =>
        /\ (result.grade = "a") <=> (result.percentage >= 80)
        /\ (result.grade = "b") <=>
               (result.percentage >= 60 /\ result.percentage < 80)
        /\ TrueFlags = RequiredFlags =>
               /\ result.totalScore = 60
               /\ result.percentage = 60
               /\ result.requiredPercentage = 100
               /\ result.grade = "b"
        /\ TrueFlags = DataKeys =>
               /\ result.totalScore = 100
               /\ result.percentage = 100
               /\ result.grade = "a"

\* C4 witness: exactly the four required flags have been scored.
C4_Witness ==
    result # None /\ TrueFlags = RequiredFlags /\ result.grade = "b"

\* C5: totalScore is the sum of the fixed weights of exactly the true flags,
\* maxScore is 100 and maxRequiredScore is 60 whatever the flags, so
\* percentage equals totalScore.
C5_WeightedSum ==
    result # None =>
        /\ result.totalScore = SumFlagWeight(TrueFlags)
        /\ result.maxScore = 100
        /\ result.maxRequiredScore = 60
        /\ result.percentage = result.totalScore

\* C5 witness: a mixed combination (validated, license, claimed: 32) has
\* been scored.
C5_Witness ==
    /\ result # None
    /\ TrueFlags = {"isValidated", "hasLicense", "isClaimed"}
    /\ result.totalScore = 32

\* C6: turning one flag from false to true with the other eight fixed never
\* lowers totalScore or percentage.
C6_Monotone ==
    prev # None =>
        /\ result.totalScore >= prev.totalScore
        /\ result.percentage >= prev.percentage

\* C6 witness: a flag has been turned on and the score has grown.
C6_Witness ==
    prev # None /\ result.totalScore > prev.totalScore

\* The argument with every absent flag written out as false.
ExplicitFalse(d) == [k \in DataKeys |-> IF k \in DOMAIN d THEN d[k] ELSE FALSE]

\* C7: calculateToolScore with any subset of the flags absent returns
\* exactly what it returns with those flags explicitly false.
C7_AbsentIsFalse ==
    result # None =>
        /\ result = calculateToolScore(ExplicitFalse(data))
        /\ result.grade \in {"a", "b", "f"}

\* C7 witness: an argument that lacks some flags and has others true has
\* been scored.
C7_Witness ==
    /\ result # None
    /\ DOMAIN data = {"isValidated", "hasTools"}
    /\ TrueFlags = {"isValidated", "hasTools"}

\* The weights of the true required flags.
ClaimRequiredScore == SumFlagWeight(TrueFlags \cap RequiredFlags)

\* C8: requiredPercentage = round(100 * requiredScore / 60) with
\* requiredScore the weights of the true required flags; it is 100 exactly
\* when all four required flags are true and 0 exactly when none is; all
\* nine false give totalScore 0, requiredPercentage 0, grade f.
C8_RequiredPercentage ==
    result # None =>
        /\ result.requiredScore = ClaimRequiredScore
        /\ result.requiredPercentage = (200 * ClaimRequiredScore + 60) \div 120
        /\ (result.requiredPercentage = 100) <=> AllRequired
        /\ (result.requiredPercentage = 0) <=> (TrueFlags \cap RequiredFlags = {})
        /\ TrueFlags = {} =>
               /\ result.totalScore = 0
               /\ result.requiredPercentage = 0
               /\ result.grade = "f"

\* C8 witness: hasTools and hasReadme (25 of 60, 41.67 rounded up to 42)
\* have been scored.
C8_Witness ==
    /\ result # None
    /\ TrueFlags \cap RequiredFlags = {"hasTools", "hasReadme"}
    /\ result.requiredPercentage = 42

(***************************************************************************)
(* Properties of the tool handlers                                         *)
(***************************************************************************)

\* The nine quality flags stored in a row.
StoredFlags(row) == [k \in DataKeys |-> row[k]]

\* The derived fields of a row are the engine's result for its flags.
ScoreFresh(row) ==
    LET s == calculateToolScore(StoredFlags(row))
    IN  /\ row.totalScore = s.totalScore
        /\ row.percentage = s.percentage
        /\ row.grade = s.grade

\* C1: with create, PATCH and delete requests one at a time, in every
\* reachable state each stored tool's totalScore, percentage and grade are
\* the scoring engine's result for its nine stored flags.
C1_ScoreFreshSerial == \A id \in DOMAIN tools : ScoreFresh(tools[id])

\* C1 witness: a tool created without license (default flags plus the three
\* other required ones is not a create body with license) has been patched
\* to license = true and is graded b with 68 points.
C1_Witness ==
    /\ response # None
    /\ response.kind = "patchTool"
    /\ response.status = 200
    /\ "id" \in DOMAIN response
    /\ response.id \in DOMAIN tools
    /\ LET row == tools[response.id]
       IN  /\ {k \in DataKeys : row[k]} = RequiredFlags \cup {"hasLicense"}
           /\ row.totalScore = 68
           /\ row.grade = "b"

\* C2: score recomputation and persistence are one read-modify-write unit
\* per tool: when PATCH requests for the same tool interleave and change
\* different flags, then once they have completed the stored totalScore,
\* percentage and grade are the score of the stored flags.
C2_NoLostScoreUpdate ==
    Quiet => \A id \in DOMAIN tools : ScoreFresh(tools[id])

(***************************************************************************)
(* Properties of the trending ranker (checked under SpecTrending, where    *)
(* the store does not change while a request runs)                         *)
(***************************************************************************)

\* A trending request has been answered from the usage path.
UsageAnswer ==
    /\ response # None
    /\ response.kind = "trending"
    /\ response.status = 200
    /\ ~response.fallback

\* The threshold of the answered request.
AnswerThreshold == now - periodDays[response.query.period]

\* The tools with at least one usage event in the window of the answered
\* request.
ToolsInWindow == {id \in DOMAIN tools : CountSince(id, AnswerThreshold) > 0}

\* The blend of the specification: events in the window + stored totalScore.
Blend(id) == CountSince(id, AnswerThreshold) + tools[id].totalScore

\* The answer is the `limit` tools of S with the highest blend, highest
\* first, each carrying its blend as trendingScore.
AnswerIsTopOf(S) ==
    LET answer == response.data
        m      == Min(response.query.limit, Cardinality(S))
    IN  /\ DOMAIN answer = 1..m
        /\ \A i \in 1..m :
              /\ answer[i].id \in S
              /\ ToNumber(answer[i].trendingScore) = Blend(answer[i].id)
        /\ \A i, j \in 1..m : i < j =>
              /\ answer[i].id # answer[j].id
              /\ Blend(answer[i].id) >= Blend(answer[j].id)
        /\ \A x \in S \ {answer[i].id : i \in 1..m} :
              \A i \in 1..m : Blend(answer[i].id) >= Blend(x)

\* C9: with a usage event in the window, the trending result is the `limit`
\* highest-trendingScore tools among all tools with an event in the window,
\* in descending order of trendingScore = events in the window + stored
\* totalScore; a tool with fewer events and a higher blend is never
\* displaced by one with more events and a lower blend.
C9_TopByBlend ==
    (UsageAnswer /\ "category" \notin DOMAIN response.query) =>
        AnswerIsTopOf(ToolsInWindow)

\* C10: with a category filter the result holds the highest-trendingScore
\* tools of that category that have events in the window, however many
\* tools of other categories have more usage.
C10_CategoryNotCrowdedOut ==
    (UsageAnswer /\ "category" \in DOMAIN response.query) =>
        AnswerIsTopOf({id \in ToolsInWindow :
                          tools[id].category = response.query.category})

\* A trending request has been answered with a ranking.
TrendingAnswer ==
    /\ response # None
    /\ response.kind = "trending"
    /\ response.status = 200

\* The usage events in the window of the answered request.
EventsInWindow ==
    {e \in BagToSet(toolUsageLogs) : e.createdAt >= AnswerThreshold}

\* Tool a comes ahead of tool b by stored totalScore, then downloadCount.
AheadByScore(a, b) ==
    \/ tools[a].totalScore > tools[b].totalScore
    \/ /\ tools[a].totalScore = tools[b].totalScore
       /\ tools[a].downloadCount > tools[b].downloadCount

\* The tools of the category asked for (all tools when none is).
InCategory ==
    {id \in DOMAIN tools :
        "category" \in DOMAIN response.query
            => tools[id].category = response.query.category}

\* C11: with no usage event in the window the trending request is answered
\* (the only failure is that of the database) with the top `limit` tools of
\* the category asked for, by stored totalScore descending then
\* downloadCount descending, each with recentUsage 0 and trendingScore its
\* stored totalScore; an empty catalog gives the empty ranking.
C11_FallbackRanking ==
    /\ (response # None /\ response.kind = "trending" /\ response.status # 200)
          => response = InternalError("trending")
    /\ (TrendingAnswer /\ EventsInWindow = {}) =>
          LET answer == response.data
              m      == Min(response.query.limit, Cardinality(InCategory))
          IN  /\ response.fallback
              /\ DOMAIN answer = 1..m
              /\ \A i \in 1..m :
                    /\ answer[i].id \in InCategory
                    /\ answer[i].recentUsage = Num(0)
                    /\ answer[i].trendingScore = Num(tools[answer[i].id].totalScore)
                    /\ answer[i].totalScore = tools[answer[i].id].totalScore
              /\ \A i, j \in 1..m : i < j =>
                    /\ answer[i].id # answer[j].id
                    /\ ~AheadByScore(answer[j].id, answer[i].id)
              /\ \A x \in InCategory \ {answer[i].id : i \in 1..m} :
                    \A i \in 1..m : ~AheadByScore(x, answer[i].id)

\* C11 witness: a fallback answer for limit 2 within category defi, the
\* tool with 100 points ahead of the one with 15.
C11_Witness ==
    /\ TrendingAnswer
    /\ EventsInWindow = {}
    /\ response.query = [period |-> "day", limit |-> 2, category |-> "defi"]
    /\ Len(response.data) = 2
    /\ response.data[1].totalScore = 100
    /\ response.data[2].totalScore = 15

\* C12: on the fallback and the usage path the trending result has at most
\* `limit` entries, no tool twice, only tools of the category asked for,
\* and is ordered by non-increasing trendingScore.
C12_RankingShape ==
    TrendingAnswer =>
        LET answer == response.data
        IN  /\ Len(answer) <= response.query.limit
            /\ \A i, j \in DOMAIN answer : i # j => answer[i].id # answer[j].id
            /\ \A i \in DOMAIN answer :
                  "category" \in DOMAIN response.query
                      => answer[i].category = response.query.category
            /\ \A i, j \in DOMAIN answer : i < j =>
                  ToNumber(answer[i].trendingScore)
                      >= ToNumber(answer[j].trendingScore)

\* C12 witness: a usage answer of two tools of category defi with
\* different trendingScore.
C12_Witness ==
    /\ UsageAnswer
    /\ response.query = [period |-> "week", limit |-> 2, category |-> "defi"]
    /\ Len(response.data) = 2
    /\ ToNumber(response.data[1].trendingScore)
          > ToNumber(response.data[2].trendingScore)

\* Lookback of the three periods in days.
LookbackDays == [day |-> 1, week |-> 7, month |-> 30]

\* The number of usage events of tool id at or after now minus the lookback
\* of the answered request.
EventsOf(id) ==
    LET since == now - LookbackDays[response.query.period]
        hits  == {e \in BagToSet(toolUsageLogs) :
                     e.toolId = id /\ e.createdAt >= since}
    IN  BagCardinality([e \in hits |-> toolUsageLogs[e]])

\* C13: the usage count of a tool is the number of its events at or after
\* now minus 1, 7 or 30 days (an event exactly at the threshold counts, an
\* older one does not), and each returned tool's recentUsage is that count.
C13_RecentUsageIsWindowCount ==
    UsageAnswer =>
        \A i \in DOMAIN response.data :
            response.data[i].recentUsage = Num(EventsOf(response.data[i].id))

\* The ids of a ranking, in order.
AnswerIds(resp) == [i \in DOMAIN resp.data |-> resp.data[i].id]

\* The rankings of at most MaxLimit of the stored tools.
Rankings == UNION {[1..n -> DOMAIN tools] : n \in 0..MaxLimit}

\* The tools the usage query has kept for the request in slot r.
KeptTools(rq) ==
    IF rq.pc = "trending_fetch"
    THEN {rq.trendingData[i].toolId : i \in DOMAIN rq.trendingData}
    ELSE {}

\* C14: the trending result is a function of the period, limit, category,
\* stored tools, usage events and now: the usage query keeps one set of
\* tools, and the fallback and the usage path each return one ranking, also
\* when tools tie on trendingScore or on usage count at the 2 x limit cut.
C14_Deterministic ==
    /\ Quiet =>
          \A query \in TrendingQueries : \A S1, S2 \in SUBSET DOMAIN tools :
              (/\ ENABLED (TrendingUsage(1, query) /\ KeptTools(req'[1]) = S1)
               /\ ENABLED (TrendingUsage(1, query) /\ KeptTools(req'[1]) = S2))
                  => S1 = S2
    /\ \A r \in Slots : \A o1, o2 \in Rankings :
          (/\ ENABLED (TrendingFetch(r) /\ AnswerIds(response') = o1)
           /\ ENABLED (TrendingFetch(r) /\ AnswerIds(response') = o2))
              => o1 = o2
    /\ \A r \in Slots : \A o1, o2 \in Rankings :
          (/\ ENABLED (TrendingFallback(r) /\ AnswerIds(response') = o1)
           /\ ENABLED (TrendingFallback(r) /\ AnswerIds(response') = o2))
              => o1 = o2

\* C15: when a statement of a trending request fails, the request ends in
\* one failure response without ranking data: no partial ranking, and no
\* successful empty ranking.
C15_FailureIsOpaque ==
    [][\A r \in Slots :
          (TrendingUsageFail(r) \/ TrendingStepFail(r)) =>
              /\ response'.kind = "trending"
              /\ response'.status = 500
              /\ "data" \notin DOMAIN response'
              /\ req'[r] = Idle]_vars

\* C15 witness: a trending request failed after its usage query had kept
\* tools, and was answered 500.
C15_Witness ==
    /\ Quiet
    /\ response # None
    /\ response.kind = "trending"
    /\ response.status = 500
    /\ toolUsageLogs # EmptyBag

(***************************************************************************)
(* Properties of the category counters (checked under SpecCatalog)         *)
(***************************************************************************)

\* The counters after the counter of category cat has moved by delta, not
\* below 0; no counter moves when there is no such category.
CountersMoved(cat, delta) ==
    /\ DOMAIN categories' = DOMAIN categories
    /\ \A c \in DOMAIN categories :
          categories'[c].toolCount =
              IF c # cat THEN categories[c].toolCount
              ELSE IF categories[c].toolCount + delta < 0 THEN 0
              ELSE categories[c].toolCount + delta

\* This step returns the response of kind `kind` with status `status`.
Answers(kind, status) ==
    /\ \E r \in Slots : req[r] # Idle /\ req'[r] = Idle
    /\ response'.kind = kind
    /\ response'.status = status

\* C16: a successful creation adds exactly 1 to the toolCount of the
\* category of the new tool's slug (nothing when there is none), a
\* successful deletion takes exactly 1 off it but not below 0, and no other
\* category's toolCount changes.
C16_CounterOnCreateDelete ==
    [][/\ Answers("createTool", 201) =>
             CountersMoved(tools'[response'.id].category, 1)
       /\ Answers("deleteTool", 200) =>
             \E r \in Slots :
                 /\ req[r].pc = "delete_count"
                 /\ req[r].id = response'.id
                 /\ CountersMoved(req[r].category, -1)]_vars

\* C16 witness: both categories exist, the tool of nft is counted, and the
\* tool of defi has been deleted, leaving its category at 0.
C16_Witness ==
    /\ response # None
    /\ response.kind = "deleteTool"
    /\ response.status = 200
    /\ DOMAIN categories = {"defi", "nft"}
    /\ categories["defi"].toolCount = 0
    /\ categories["nft"].toolCount = 1
    /\ \E id \in DOMAIN tools : tools[id].category = "nft"

\* C17: a PATCH that changes the category of a tool leaves every
\* category's toolCount as it was.
C17_PatchLeavesCounters ==
    [][(/\ Answers("patchTool", 200)
        /\ "id" \in DOMAIN response'
        /\ tools'[response'.id].category # tools[response'.id].category)
            => categories' = categories]_vars

\* C17 witness: after the PATCH the tool is stored with category nft, whose
\* toolCount is 0, while defi, which has no tool, counts 1.
C17_Witness ==
    /\ response # None
    /\ response.kind = "patchTool"
    /\ response.status = 200
    /\ "id" \in DOMAIN response
    /\ response.id \in DOMAIN tools
    /\ tools[response.id].category = "nft"
    /\ DOMAIN categories = {"defi", "nft"}
    /\ categories["nft"].toolCount = 0
    /\ categories["defi"].toolCount = 1
    /\ Cardinality({id \in DOMAIN tools : tools[id].category = "nft"}) = 1
    /\ Cardinality({id \in DOMAIN tools : tools[id].category = "defi"}) = 0

(***************************************************************************)
(* Properties of the usage events (checked under SpecViews)                *)
(***************************************************************************)

\* C18: every usage event references a tool that exists (deleting a tool
\* removes its events, a view racing with the delete leaves none behind),
\* and no step changes the events of a tool that stays: events are only
\* added, or removed with their tool.
C18_EventsOwnedByTools ==
    /\ [](\A e \in BagToSet(toolUsageLogs) : e.toolId \in DOMAIN tools)
    /\ [][\A e \in BagToSet(toolUsageLogs) :
             IF e.toolId \in DOMAIN tools'
             THEN /\ e \in BagToSet(toolUsageLogs')
                  /\ toolUsageLogs'[e] >= toolUsageLogs[e]
             ELSE e \notin BagToSet(toolUsageLogs')]_vars

\* C18 witness: a view whose tool was deleted between its select and its
\* insert was answered 500, and no event is stored.
C18_Witness ==
    /\ response # None
    /\ response.kind = "getTool"
    /\ response.status = 500
    /\ toolUsageLogs = EmptyBag

(***************************************************************************)
(* Properties of the tool names (checked under SpecNames)                  *)
(***************************************************************************)

C20_UpdatedAtMonotone ==
    [][/\ (Answers("patchTool", 200) /\ "id" \in DOMAIN response') =>
             /\ tools'[response'.id].updatedAt >= tools[response'.id].updatedAt
             /\ tools'[response'.id].updatedAt <= now
       /\ \A id \in DOMAIN tools \cap DOMAIN tools' :
             tools'[id].createdAt = tools[id].createdAt]_vars

(***************************************************************************)
(* GET /api/search                                                         *)
(***************************************************************************)

\* Query objects that pass searchQuerySchema: no filter, or a category
\* (page 1 and a limit no smaller than the catalog).
SearchQueries == {EmptyObject} \cup {[category |-> c] : c \in Slugs}

\* The where clause built from the query.
SearchMatches(query) ==
    {id \in DOMAIN tools :
        "category" \in DOMAIN query => tools[id].category = query.category}

\* The statement: select count(*) from tools where the conditions hold.
SearchCount(r, query) ==
    /\ FreeSlot(r)
    /\ req' = [req EXCEPT ![r] =
                [pc |-> "search_select", query |-> query,
                 total |-> Cardinality(SearchMatches(query))]]
    /\ response' = None
    /\ UNCHANGED <<tools, toolUsageLogs, categories, nextId, now, bigintAsText>>
    /\ UNCHANGED <<scoreVars, discoveryQueue>>

\* The statement: select from tools where the conditions hold (the page is
\* the whole result; its order is not kept here), and the answer.
SearchSelect(r) ==
    /\ req[r].pc = "search_select"
    /\ Respond(r, [kind |-> "search", status |-> 200,
                   total |-> req[r].total,
                   items |-> SearchMatches(req[r].query)])
    /\ UNCHANGED <<tools, toolUsageLogs, categories, nextId, now, bigintAsText>>
    /\ UNCHANGED <<scoreVars, discoveryQueue>>

(***************************************************************************)
(* Creates, views, PATCHes, trending and search requests one at a time,    *)
(* while time passes                                                       *)
(***************************************************************************)

ActivityCreateBodies == {[name |-> "alpha", category |-> "defi"]}

\* A body that names the two counters, which updateToolSchema does not
\* have, and a body that sets one flag.
ActivityPatchBodies ==
    { [downloadCount |-> -1, usageCount |-> -1], [hasLicense |-> TRUE] }

ActivityQueries ==
    { [period |-> "day", limit |-> 1],
      [period |-> "week", limit |-> 1],
      [period |-> "day", limit |-> 1, category |-> "nft"] }

\* A request arrives while no other is in flight.
ActivityStart(r) ==
    /\ Quiet
    /\ \/ \E body \in ActivityCreateBodies : CreateCheck(r, body)
       \/ \E id \in ToolIds : GetRead(r, id)
       \/ \E id \in ToolIds, body \in ActivityPatchBodies : PatchRead(r, id, body)
       \/ \E query \in ActivityQueries : TrendingUsage(r, query)
       \/ \E query \in SearchQueries : SearchCount(r, query)

\* The handler in flight runs its next statement.
ActivityStep(r) ==
    \/ CreateInsert(r)
    \/ CreateCount(r)
    \/ GetLog(r)
    \/ PatchUpdate(r)
    \/ TrendingFallback(r)
    \/ TrendingFetch(r)
    \/ SearchSelect(r)

NextActivity ==
    \/ \E r \in Slots : ActivityStart(r)
    \/ \E r \in Slots : ActivityStep(r)
    \/ Quiet /\ Tick

SpecActivity == InitApi /\ [][NextActivity]_vars

(***************************************************************************)
(* Properties of the tool counters (checked under SpecActivity)            *)
(***************************************************************************)

\* C21: over creates, views, PATCHes, trending and search requests the
\* downloadCount and the usageCount of a tool never decrease.
C21_CountersNeverDecrease ==
    [][\A id \in DOMAIN tools \cap DOMAIN tools' :
          /\ tools'[id].downloadCount >= tools[id].downloadCount
          /\ tools'[id].usageCount >= tools[id].usageCount]_vars

\* C21 witness: the PATCH answered last named both counters with -1 (the
\* other PATCH body sets hasLicense, which is still false), and the tool's
\* counters are what they were at creation.
C21_Witness ==
    /\ response # None
    /\ response.kind = "patchTool"
    /\ response.status = 200
    /\ "id" \in DOMAIN response
    /\ response.id \in DOMAIN tools
    /\ ~tools[response.id].hasLicense
    /\ tools[response.id].updatedAt > tools[response.id].createdAt
    /\ tools[response.id].downloadCount = 0
    /\ tools[response.id].usageCount = 0
    /\ LoggedFor(response.id) > 0

(***************************************************************************)
(* Properties of scoreData (checked under SpecSerial)                      *)
(***************************************************************************)

\* The nine entries of ScoreData, from the flag columns of the row.
FlagsAsScoreData(row) ==
    [hasValidated            |-> row.isValidated,
     hasTools                |-> row.hasTools,
     hasDeployment           |-> row.hasDeployment,
     hasDeployMoreThanManual |-> row.hasDeployMoreThanManual,
     hasReadme               |-> row.hasReadme,
     hasLicense              |-> row.hasLicense,
     hasPrompts              |-> row.hasPrompts,
     hasResources            |-> row.hasResources,
     hasClaimed              |-> row.isClaimed]

\* C22: after every successful create and every PATCH that recomputes the
\* score, the nine entries of the tool's scoreData equal its nine stored
\* flag columns (hasValidated = isValidated, hasClaimed = isClaimed, the
\* others by name), for every combination of flags, hasTools = false
\* included.
C22_ScoreDataMirrorsFlags ==
    \A id \in DOMAIN tools : tools[id].scoreData = FlagsAsScoreData(tools[id])

(***************************************************************************)
(* Views and deletions interleaved over a counted category                 *)
(***************************************************************************)

\* Two tools of category defi, counted, and the empty category nft.
InitDeletes ==
    /\ data = EmptyObject
    /\ result = None
    /\ prev = None
    /\ \E f \in [{1, 2} -> TrendFlagBodies] :
          tools = [i \in {1, 2} |->
                      CreatedRow(Spread([name |-> TrendNames[i],
                                         category |-> "defi"], f[i]), 0)]
    /\ toolUsageLogs = EmptyBag
    /\ categories = [c \in Slugs |->
                        [name |-> IF c = "defi" THEN "DeFi" ELSE "NFT",
                         toolCount |-> IF c = "defi" THEN 2 ELSE 0]]
    /\ nextId = 2
    /\ discoveryQueue = EmptyBag
    /\ now = 0
    /\ bigintAsText = TRUE
    /\ req = [r \in Slots |-> Idle]
    /\ response = None

\* A view or delete request arrives, whatever else is in flight.
DeletesStart(r) ==
    \/ \E id \in ToolIds : GetRead(r, id)
    \/ \E id \in ToolIds : DeleteRead(r, id)

\* A handler in flight runs its next statement.
DeletesStep(r) ==
    \/ GetLog(r)
    \/ DeleteRow(r)
    \/ DeleteCount(r)

NextDeletes ==
    \/ \E r \in Slots : DeletesStart(r)
    \/ \E r \in Slots : DeletesStep(r)

SpecDeletes == InitDeletes /\ [][NextDeletes]_vars

\* C23: the deletion of a tool takes 1 off its category's toolCount exactly
\* once, also when two DELETEs of the tool interleave: with no DELETE in
\* flight, the category that counted its two tools counts the tools left.
C23_DeleteCountsOnce ==
    (\A r \in Slots : req[r].pc \notin {"delete_delete", "delete_count"})
        => categories["defi"].toolCount = Cardinality(DOMAIN tools)

(***************************************************************************)
(* POST and GET /api/discovery                                             *)
(***************************************************************************)

MaxQueue == 3       \* most rows of discovery_queue

SourceUrls == {"https://a.example", "https://b.example"}

\* Bodies of POST /api/discovery that pass submitDiscoverySchema.
DiscoveryBodies == {[name |-> n, sourceUrl |-> u] : n \in Names, u \in SourceUrls}

\* submitDiscoverySchema.safeParse(body).data
submitDiscoverySchema(body) == Spread([sourceType |-> "discovered"], body)

\* The rows of the queue with the sourceUrl.
QueuedWith(url) ==
    LET hits == {e \in BagToSet(discoveryQueue) : e.sourceUrl = url}
    IN  BagCardinality([e \in hits |-> discoveryQueue[e]])

\* The statement: select id from discovery_queue where source_url.  A hit
\* answers 409.
DiscoveryCheck(r, body) ==
    /\ FreeSlot(r)
    /\ LET submissionData == submitDiscoverySchema(body)
       IN  IF QueuedWith(submissionData.sourceUrl) > 0
           THEN Respond(r, [kind |-> "submitDiscovery", status |-> 409])
           ELSE /\ req' = [req EXCEPT ![r] =
                            [pc |-> "discovery_insert",
                             submissionData |-> submissionData]]
                /\ response' = None
    /\ UNCHANGED <<tools, toolUsageLogs, categories, nextId, now, bigintAsText>>
    /\ UNCHANGED <<scoreVars, discoveryQueue>>

\* The statement: insert into discovery_queue ... returning (the id is a
\* fresh uuid, status defaults to pending; no column but id is unique).
DiscoveryInsert(r) ==
    /\ req[r].pc = "discovery_insert"
    /\ BagCardinality(discoveryQueue) < MaxQueue
    /\ discoveryQueue' = discoveryQueue (+)
          SetToBag({Spread(req[r].submissionData, [status |-> "pending"])})
    /\ Respond(r, [kind |-> "submitDiscovery", status |-> 201])
    /\ UNCHANGED <<tools, toolUsageLogs, categories, nextId, now, bigintAsText>>
    /\ UNCHANGED scoreVars

\* GET /api/discovery: the rows of the status asked for (pending unless
\* given), as a bag.
DiscoveryList(r, status) ==
    /\ FreeSlot(r)
    /\ LET hits == {e \in BagToSet(discoveryQueue) : e.status = status}
       IN  Respond(r, [kind |-> "listDiscovery", status |-> 200,
                       items |-> [e \in hits |-> discoveryQueue[e]]])
    /\ UNCHANGED <<tools, toolUsageLogs, categories, nextId, now, bigintAsText>>
    /\ UNCHANGED <<scoreVars, discoveryQueue>>

\* Submissions and listings, interleaved.
NextDiscovery ==
    \/ \E r \in Slots, body \in DiscoveryBodies : DiscoveryCheck(r, body)
    \/ \E r \in Slots : DiscoveryInsert(r)
    \/ \E r \in Slots : DiscoveryList(r, "pending")

SpecDiscovery == InitApi /\ [][NextDiscovery]_vars

\* C24: the discovery queue never holds two entries of one sourceUrl, also
\* when two submissions interleave, and a submission whose sourceUrl is
\* queued is answered with a conflict and adds no entry.
C24_SourceUrlQueuedOnce ==
    /\ [](\A url \in SourceUrls : QueuedWith(url) <= 1)
    /\ [][Answers("submitDiscovery", 409) => discoveryQueue' = discoveryQueue]_vars

(***************************************************************************)
(* Properties of the trending fallback (checked under SpecTrending)        *)
(***************************************************************************)

\* The handler of slot r is about to fetch the tools of its usage groups,
\* none of which is of the category asked for.
NoneSelectedInCategory(r) ==
    /\ req[r].pc = "trending_fetch"
    /\ "category" \in DOMAIN req[r].query
    /\ \A i \in DOMAIN req[r].trendingData :
          LET id == req[r].trendingData[i].toolId
          IN  id \in DOMAIN tools => tools[id].category # req[r].query.category

\* C25: when the window holds a usage event but none of the tools selected
\* from the usage groups is of the category asked for, the request is
\* answered (a failure of the database aside) with a successful empty
\* ranking and not with the fallback, also when tools of the category
\* exist; the fallback is taken only when the window holds no event of any
\* tool.
C25_EmptyRankingNotFallback ==
    /\ []((TrendingAnswer /\ response.fallback) => EventsInWindow = {})
    /\ [][\A r \in Slots :
             (NoneSelectedInCategory(r) /\ req'[r] = Idle /\ response'.status # 500)
                => /\ response'.kind = "trending"
                   /\ response'.status = 200
                   /\ ~response'.fallback
                   /\ response'.data = <<>>]_vars

\* C25 witness: a request for category nft, whose tool has no event while
\* a tool of defi has one in the window, was answered with the empty
\* ranking off the usage path.
C25_Witness ==
    /\ UsageAnswer
    /\ "category" \in DOMAIN response.query
    /\ response.query.category = "nft"
    /\ response.data = <<>>
    /\ EventsInWindow # {}
    /\ \E id \in DOMAIN tools : tools[id].category = "nft"
    /\ \A e \in EventsInWindow : tools[e.toolId].category = "defi"

(***************************************************************************)
(* calculateScore with the caller's items and weights                      *)
(***************************************************************************)

MaxWeight == 35     \* largest weight of an item

ItemKeys == {"first", "second"}

\* A ScoreItem: check, and required when it is given.
ScoreItems ==
    {[check |-> c] : c \in BOOLEAN}
        \cup {[check |-> c, required |-> q] : c \in BOOLEAN, q \in {TRUE}}

InitWeights ==
    /\ \E items \in [ItemKeys -> ScoreItems], weights \in [ItemKeys -> 1..MaxWeight] :
          data = [items |-> items, weights |-> weights]
    /\ result = None
    /\ prev = None
    /\ InitStore

\* A call calculateScore(data.items, data.weights).
ScoreWith ==
    /\ result = None
    /\ result' = calculateScoreWith(data.items, data.weights)
    /\ UNCHANGED <<data, prev>>
    /\ UNCHANGED storeVars

NextWeights == ScoreWith

SpecWeights == InitWeights /\ [][NextWeights]_vars

\* C26: for any items and any positive integer weights the grade returned
\* by calculateScore agrees with the rounded percentages returned with it:
\* f whenever the returned requiredPercentage is below 100, otherwise a
\* exactly when the returned percentage is at least 80, b exactly when it
\* is between 60 and 79, and f below 60.
C26_GradeAgreesWithReturned ==
    result # None =>
        result.grade =
            IF result.requiredPercentage < 100 THEN "f"
            ELSE IF result.percentage >= 80 THEN "a"
            ELSE IF result.percentage >= 60 THEN "b"
            ELSE "f"

(***************************************************************************)
(* The required gate under the default weights (checked under SpecScore)   *)
(***************************************************************************)

\* C27: with the default weights the grade is f exactly when one of the
\* four required flags is false: all four true give a total of at least
\* 60, so the branch that gives f below 60 is never the one taken.
C27_FailsOnlyByRequired ==
    result # None =>
        /\ (result.grade = "f") <=> ~AllRequired
        /\ AllRequired =>
              /\ result.totalScore >= 60
              /\ result.percentage >= 60
              /\ result.requiredPercentage = 100

\* C27 witness: the four required flags and isClaimed have been scored, 64
\* points and grade b.
C27_Witness ==
    /\ result # None
    /\ TrueFlags = RequiredFlags \cup {"isClaimed"}
    /\ result.totalScore = 64
    /\ result.grade = "b"

(***************************************************************************)
(* The frame of a PATCH without flags (checked under SpecSerial)           *)
(***************************************************************************)

\* The columns a PATCH without flags may write.
DescriptiveFields == {"name", "category"}

\* C28: a successful PATCH whose body has none of the nine flags leaves the
\* tool's totalScore, maxScore, percentage, grade, scoreData and nine flag
\* columns as they were: only the descriptive fields supplied and updatedAt
\* change.
C28_PatchWithoutFlagsKeepsScore ==
    [][\A r \in Slots :
          (/\ req[r].pc = "patch_update"
           /\ req'[r] = Idle
           /\ response'.status = 200
           /\ "id" \in DOMAIN response'
           /\ DOMAIN req[r].set \cap DataKeys = {})
          => LET id    == req[r].id
                 wrote == (DOMAIN req[r].set \cap DescriptiveFields) \cup {"updatedAt"}
             IN  /\ DOMAIN tools' = DOMAIN tools
                 /\ DOMAIN tools'[id] = DOMAIN tools[id]
                 /\ \A k \in DOMAIN tools[id] \ wrote : tools'[id][k] = tools[id][k]
                 /\ \A k \in {"totalScore", "maxScore", "percentage", "grade",
                              "scoreData"} \cup DataKeys :
                       tools'[id][k] = tools[id][k]
                 /\ \A o \in DOMAIN tools \ {id} : tools'[o] = tools[o]]_vars

\* C28 witness: a tool that holds all nine flags and 100 points has been
\* moved to category nft by a PATCH, and still holds them.
C28_Witness ==
    /\ response # None
    /\ response.kind = "patchTool"
    /\ response.status = 200
    /\ "id" \in DOMAIN response
    /\ response.id \in DOMAIN tools
    /\ tools[response.id].category = "nft"
    /\ \A k \in DataKeys : tools[response.id][k]
    /\ tools[response.id].totalScore = 100
    /\ tools[response.id].grade = "a"
    /\ tools[response.id].scoreData = FlagsAsScoreData(tools[response.id])

(***************************************************************************)
(* Views and the trending window (checked under SpecActivity)              *)
(***************************************************************************)

\* Of the store, only the usage events may differ after this step.
OnlyEventsChange ==
    /\ tools' = tools
    /\ categories' = categories
    /\ discoveryQueue' = discoveryQueue
    /\ nextId' = nextId

C29_WitnessExpired ==
    /\ TrendingAnswer
    /\ response.fallback
    /\ response.query.period = "day"
    /\ toolUsageLogs # EmptyBag

(***************************************************************************)
(* One create request body, with each flag true, false or omitted          *)
(***************************************************************************)

\* The body of the POST /api/tools requests is `data`.
InitCreate ==
    /\ \E f \in ScoreInputs :
          data = Spread([name |-> "alpha", category |-> "defi"], f)
    /\ result = None
    /\ prev = None
    /\ InitStore

NextCreate ==
    \/ \E r \in Slots : Quiet /\ CreateCheck(r, data)
    \/ \E r \in Slots : CreateInsert(r)
    \/ \E r \in Slots : CreateCount(r)

SpecCreate == InitCreate /\ [][NextCreate]_vars

\* C30: a tool created with hasTools omitted is stored with hasTools = true
\* and scored with its 15 points, each of the other eight flags that is
\* omitted is stored false and scores nothing, a flag that is supplied is
\* stored as supplied, and a tool created with no flag supplied has
\* totalScore 15 and grade f.
C30_CreateDefaults ==
    \A id \in DOMAIN tools :
        LET row == tools[id]
            on  == {k \in DataKeys : row[k]}
        IN  /\ \A k \in DataKeys :
                  row[k] = IF k \in DOMAIN data THEN data[k] ELSE k = "hasTools"
            /\ row.totalScore = SumFlagWeight(on)
            /\ "hasTools" \notin DOMAIN data =>
                  row.totalScore = 15 + SumFlagWeight(on \ {"hasTools"})
            /\ DOMAIN data \cap DataKeys = {} =>
                  /\ row.totalScore = 15
                  /\ row.percentage = 15
                  /\ row.grade = "f"

\* C30 witness: the body had the name and the category only, and the tool
\* is stored with hasTools alone, 15 points and grade f.
C30_Witness ==
    /\ DOMAIN data = {"name", "category"}
    /\ response # None
    /\ response.kind = "createTool"
    /\ response.status = 201
    /\ tools[response.id].hasTools
    /\ \A k \in DataKeys \ {"hasTools"} : ~tools[response.id][k]
    /\ tools[response.id].totalScore = 15
    /\ tools[response.id].grade = "f"

=============================================================================
